---- MODULE Spec2Model ----
(***************************************************************************)
(* Session coordinator of the pictionary server (server/index.js): the     *)
(* process-wide room map `games`, the Game class and the socket.io event   *)
(* handlers.  One action per handler; each action is the whole handler.    *)
(***************************************************************************)
EXTENDS Integers, Sequences, FiniteSets, TLC

\* ---------------------------------------------------------------- bounds
\* Longest players list a join is allowed to produce.
MaxPlayers == 3
\* Longest stroke log a draw is allowed to produce.
MaxLog == 1
\* Highest score a matching guess is allowed to produce.
MaxScore == 10
\* Largest index Math.random() is allowed to select in `words`.
MaxWordIdx == 1

\* ------------------------------------------------------- input universes
Conns == {"A", "B", "C"}
Rooms == {"r1", "r2"}
Strokes == {"s1", "s2"}
Guesses ==
  { <<"C", "A", "T">>, <<"c", "a", "t", "s">>, <<"d", "o", "g">>, <<>> }
\* the playerName each client holds and sends with joinRoom and guess
playerNameOf == [c \in Conns |-> CASE c = "A" -> "ann" [] c = "B" -> "bob"
                                     [] c = "C" -> "cy"]
\* the room ids and strokes Spec, the single-room specification, draws from;
\* Rooms and Strokes are the universes for specifications of several rooms
OneRoom == {"r1"}
OneStroke == {"s1"}

\* ------------------------------------------------------------ JS values
null == "null"
Num(n) == [nan |-> FALSE, val |-> n]
NaN == [nan |-> TRUE, val |-> 0]
\* a + n on JS numbers, where a may be NaN
JsAdd(a, n) == IF a.nan THEN NaN ELSE Num(a.val + n)
\* obj[key], undefined coerced to a number by `+=`
JsGetNum(obj, key) == IF key \in DOMAIN obj THEN obj[key] ELSE NaN
JsSet(obj, key, v) ==
  [k \in (DOMAIN obj) \cup {key} |-> IF k = key THEN v ELSE obj[k]]
JsDelete(obj, key) == [k \in (DOMAIN obj) \ {key} |-> obj[k]]

UpperToLower ==
  [ch \in {"A","B","C","D","E","F","G","H","I","J","K","L","M",
           "N","O","P","Q","R","S","T","U","V","W","X","Y","Z"} |->
     CASE ch = "A" -> "a" [] ch = "B" -> "b" [] ch = "C" -> "c"
       [] ch = "D" -> "d" [] ch = "E" -> "e" [] ch = "F" -> "f"
       [] ch = "G" -> "g" [] ch = "H" -> "h" [] ch = "I" -> "i"
       [] ch = "J" -> "j" [] ch = "K" -> "k" [] ch = "L" -> "l"
       [] ch = "M" -> "m" [] ch = "N" -> "n" [] ch = "O" -> "o"
       [] ch = "P" -> "p" [] ch = "Q" -> "q" [] ch = "R" -> "r"
       [] ch = "S" -> "s" [] ch = "T" -> "t" [] ch = "U" -> "u"
       [] ch = "V" -> "v" [] ch = "W" -> "w" [] ch = "X" -> "x"
       [] ch = "Y" -> "y" [] ch = "Z" -> "z"]
\* toLowerCase that returns its string as it is
toLowerCase_Identity(s) == s

\* String.prototype.toLowerCase on a string held as a tuple of characters
toLowerCase(s) ==
  [i \in 1..Len(s) |-> IF s[i] \in DOMAIN UpperToLower
                         THEN UpperToLower[s[i]] ELSE s[i]]

\* --------------------------------------------------------- vocabulary
words ==
  <<
    <<"c", "a", "t">>,
    <<"d", "o", "g">>,
    <<"h", "o", "u", "s", "e">>,
    <<"t", "r", "e", "e">>,
    <<"c", "a", "r">>,
    <<"b", "i", "k", "e">>,
    <<"s", "u", "n">>,
    <<"m", "o", "o", "n">>,
    <<"s", "t", "a", "r">>,
    <<"f", "l", "o", "w", "e", "r">>,
    <<"b", "o", "o", "k">>,
    <<"p", "h", "o", "n", "e">>,
    <<"c", "o", "m", "p", "u", "t", "e", "r">>,
    <<"t", "a", "b", "l", "e">>,
    <<"c", "h", "a", "i", "r">>,
    <<"d", "o", "o", "r">>,
    <<"w", "i", "n", "d", "o", "w">>,
    <<"c", "l", "o", "c", "k">>,
    <<"a", "p", "p", "l", "e">>,
    <<"b", "a", "n", "a", "n", "a">>,
    <<"p", "i", "z", "z", "a">>,
    <<"h", "a", "m", "b", "u", "r", "g", "e", "r">>,
    <<"c", "o", "f", "f", "e", "e">>,
    <<"w", "a", "t", "e", "r">>,
    <<"m", "o", "u", "n", "t", "a", "i", "n">>,
    <<"o", "c", "e", "a", "n">>,
    <<"b", "e", "a", "c", "h">>,
    <<"f", "o", "r", "e", "s", "t">>,
    <<"c", "i", "t", "y">>,
    <<"b", "r", "i", "d", "g", "e">>,
    <<"a", "i", "r", "p", "l", "a", "n", "e">>,
    <<"t", "r", "a", "i", "n">>,
    <<"b", "o", "a", "t">>
  >>

\* ------------------------------------------------------------ class Game
maxRounds == 3

\* constructor(roomId)
Game(roomId) ==
  [ roomId        |-> roomId,
    players       |-> <<>>,
    currentDrawer |-> null,
    currentWord   |-> <<>>,
    gameState     |-> "waiting",
    round         |-> 0,
    maxRounds     |-> maxRounds,
    scores        |-> <<>>,
    drawingData   |-> <<>> ]

\* addPlayer() that also puts the room back to waiting
addPlayer_ResetsPhase(g, playerId, playerName) ==
  [g EXCEPT !.players   = Append(@, [id |-> playerId, name |-> playerName]),
            !.scores    = JsSet(@, playerId, Num(0)),
            !.gameState = "waiting"]

\* addPlayer() with unshift in place of push
addPlayer_Unshift(g, playerId, playerName) ==
  [g EXCEPT !.players = <<[id |-> playerId, name |-> playerName]>> \o @,
            !.scores  = JsSet(@, playerId, Num(0))]

\* addPlayer(): push onto players, scores[playerId] = 0
addPlayer(g, playerId, playerName) ==
  [g EXCEPT !.players = Append(@, [id |-> playerId, name |-> playerName]),
            !.scores  = JsSet(@, playerId, Num(0))]

\* Array.prototype.filter keeping the entries whose id differs
filterOut(ps, playerId) == SelectSeq(ps, LAMBDA p : p.id # playerId)

\* removePlayer() forgetting the score entry
removePlayer_KeepsScore(g, playerId) ==
  [g EXCEPT !.players = filterOut(@, playerId)]

removePlayer(g, playerId) ==
  [g EXCEPT !.players = filterOut(@, playerId),
            !.scores  = JsDelete(@, playerId)]

\* findIndex answering 0 for an id that is not on the list
findIndex_MissingIsZero(ps, playerId) ==
  IF \E i \in 1..Len(ps) : ps[i].id = playerId
    THEN (CHOOSE i \in 1..Len(ps) :
            /\ ps[i].id = playerId
            /\ \A j \in 1..(i - 1) : ps[j].id # playerId) - 1
    ELSE 0

\* Array.prototype.findIndex on the id: zero-based, -1 when absent
findIndex(ps, playerId) ==
  IF \E i \in 1..Len(ps) : ps[i].id = playerId
    THEN (CHOOSE i \in 1..Len(ps) :
            /\ ps[i].id = playerId
            /\ \A j \in 1..(i - 1) : ps[j].id # playerId) - 1
    ELSE -1

\* Array.prototype.find on the id; only used where an entry exists
find(ps, playerId) == ps[findIndex(ps, playerId) + 1]

hasPlayer(ps, playerId) == \E i \in 1..Len(ps) : ps[i].id = playerId

\* Indices Math.floor(Math.random() * words.length) may take, cut at MaxWordIdx
RandomIndices ==
  {i \in 0..(Len(words) - 1) : i <= MaxWordIdx}

\* getRandomWord() with the random index made explicit
getRandomWord(i) == words[i + 1]

\* startGame() letting a single player start
startGame_OnePlayer(g, i) ==
  IF Len(g.players) < 1
    THEN [ok |-> FALSE, game |-> g]
    ELSE [ok |-> TRUE,
          game |-> [g EXCEPT !.gameState     = "playing",
                             !.round         = 1,
                             !.currentDrawer = g.players[1].id,
                             !.currentWord   = getRandomWord(i),
                             !.drawingData   = <<>>]]

\* startGame() handing the first turn to the last player
startGame_LastDrawer(g, i) ==
  IF Len(g.players) < 2
    THEN [ok |-> FALSE, game |-> g]
    ELSE [ok |-> TRUE,
          game |-> [g EXCEPT !.gameState     = "playing",
                             !.round         = 1,
                             !.currentDrawer = g.players[Len(g.players)].id,
                             !.currentWord   = getRandomWord(i),
                             !.drawingData   = <<>>]]

\* startGame(): the returned boolean and the game afterwards
startGame(g, i) ==
  IF Len(g.players) < 2
    THEN [ok |-> FALSE, game |-> g]
    ELSE [ok |-> TRUE,
          game |-> [g EXCEPT !.gameState     = "playing",
                             !.round         = 1,
                             !.currentDrawer = g.players[1].id,
                             !.currentWord   = getRandomWord(i),
                             !.drawingData   = <<>>]]

\* the rotation without its + 1
nextDrawerIndex_NoAdvance(ps, drawer) == findIndex(ps, drawer) % Len(ps)

nextDrawerIndex(ps, drawer) == (findIndex(ps, drawer) + 1) % Len(ps)

\* nextRound() counting a round twice
nextRound_CountsTwice(g, i) ==
  LET g1 == [g EXCEPT !.round = @ + 2] IN
  IF g1.round > g1.maxRounds
    THEN [ok |-> FALSE, game |-> [g1 EXCEPT !.gameState = "finished"]]
    ELSE [ok |-> TRUE,
          game |-> [g1 EXCEPT
                      !.currentDrawer =
                         g1.players[nextDrawerIndex(g1.players, g1.currentDrawer) + 1].id,
                      !.currentWord   = getRandomWord(i),
                      !.drawingData   = <<>>]]

\* nextRound() ending the game one round early
nextRound_EndsEarly(g, i) ==
  LET g1 == [g EXCEPT !.round = @ + 1] IN
  IF g1.round >= g1.maxRounds
    THEN [ok |-> FALSE, game |-> [g1 EXCEPT !.gameState = "finished"]]
    ELSE [ok |-> TRUE,
          game |-> [g1 EXCEPT
                      !.currentDrawer =
                         g1.players[nextDrawerIndex(g1.players, g1.currentDrawer) + 1].id,
                      !.currentWord   = getRandomWord(i),
                      !.drawingData   = <<>>]]

\* nextRound() wiping the canvas before it looks at the round counter
nextRound_ClearsOnFinish(g, i) ==
  LET g1 == [g EXCEPT !.round = @ + 1, !.drawingData = <<>>] IN
  IF g1.round > g1.maxRounds
    THEN [ok |-> FALSE, game |-> [g1 EXCEPT !.gameState = "finished"]]
    ELSE [ok |-> TRUE,
          game |-> [g1 EXCEPT
                      !.currentDrawer =
                         g1.players[nextDrawerIndex(g1.players, g1.currentDrawer) + 1].id,
                      !.currentWord   = getRandomWord(i)]]

\* nextRound() leaving the previous round's strokes in place
nextRound_KeepsLog(g, i) ==
  LET g1 == [g EXCEPT !.round = @ + 1] IN
  IF g1.round > g1.maxRounds
    THEN [ok |-> FALSE, game |-> [g1 EXCEPT !.gameState = "finished"]]
    ELSE [ok |-> TRUE,
          game |-> [g1 EXCEPT
                      !.currentDrawer =
                         g1.players[nextDrawerIndex(g1.players, g1.currentDrawer) + 1].id,
                      !.currentWord   = getRandomWord(i)]]

\* nextRound(): the returned boolean and the game afterwards
nextRound(g, i) ==
  LET g1 == [g EXCEPT !.round = @ + 1] IN
  IF g1.round > g1.maxRounds
    THEN [ok |-> FALSE, game |-> [g1 EXCEPT !.gameState = "finished"]]
    ELSE [ok |-> TRUE,
          game |-> [g1 EXCEPT
                      !.currentDrawer =
                         g1.players[nextDrawerIndex(g1.players, g1.currentDrawer) + 1].id,
                      !.currentWord   = getRandomWord(i),
                      !.drawingData   = <<>>]]

\* addDrawingData() leaving out a stroke equal to the last one on the log
addDrawingData_SkipsRepeat(g, data) ==
  IF g.drawingData # <<>> /\ g.drawingData[Len(g.drawingData)] = data
    THEN g
    ELSE [g EXCEPT !.drawingData = Append(@, data)]

\* addDrawingData() putting the stroke at the front
addDrawingData_Prepend(g, data) ==
  [g EXCEPT !.drawingData = <<data>> \o @]

addDrawingData(g, data) == [g EXCEPT !.drawingData = Append(@, data)]

\* clearDrawing() leaving the log as it is
clearDrawing_Keeps(g) == g

clearDrawing(g) == [g EXCEPT !.drawingData = <<>>]

\* ----------------------------------------------------------------- client
\* The React client: its state and its socket event handlers.
undefined == "undefined"

\* data.type of a stroke: s1 is what a touch start sends, s2 a touch move
strokeType == [d \in Strokes |-> IF d = "s1" THEN "start" ELSE "draw"]

\* useState<GameState | null>(null); `set` is false for null
NoGameState ==
  [ set           |-> FALSE,
    roomId        |-> undefined,
    players       |-> <<>>,
    gameState     |-> undefined,
    currentDrawer |-> undefined,
    currentWord   |-> undefined,
    round         |-> undefined,
    maxRounds     |-> undefined,
    scores        |-> undefined ]

\* the state of a client that has connected; currentPathData is <<>> for
\* null and <<path>> otherwise, a path being the strokes that made it
NewClient ==
  [ isConnected     |-> TRUE,
    gameState       |-> NoGameState,
    pathData        |-> <<>>,
    currentPathData |-> <<>>,
    isDrawing       |-> FALSE ]

\* on('roomJoined')
onRoomJoined(cl, data) ==
  IF cl.gameState.set /\ cl.gameState.gameState = "playing"
    THEN [cl EXCEPT !.gameState.players = data.players]
    ELSE [cl EXCEPT !.gameState =
            [NoGameState EXCEPT !.set       = TRUE,
                                !.roomId    = data.roomId,
                                !.players   = data.players,
                                !.gameState = data.gameState]]

\* on('playerJoined'): a message, nothing else
onPlayerJoined(cl, data) == cl

\* on('playerLeft'): a message, nothing else
onPlayerLeft(cl, data) == cl

\* on('gameStarted')
onGameStarted(cl, data) ==
  [cl EXCEPT !.gameState =
               IF @.set
                 THEN [@ EXCEPT !.currentDrawer = data.currentDrawer,
                                !.currentWord   = data.currentWord,
                                !.round         = data.round,
                                !.maxRounds     = data.maxRounds]
                 ELSE @,
             !.pathData = <<>>,
             !.currentPathData = <<>>]

\* on('nextRound')
onNextRound(cl, data) ==
  [cl EXCEPT !.gameState =
               IF @.set
                 THEN [@ EXCEPT !.currentDrawer = data.currentDrawer,
                                !.currentWord   = data.currentWord,
                                !.round         = data.round,
                                !.scores        = data.scores]
                 ELSE @,
             !.pathData = <<>>,
             !.currentPathData = <<>>]

\* on('gameFinished')
onGameFinished(cl, data) ==
  [cl EXCEPT !.gameState =
               IF @.set
                 THEN [@ EXCEPT !.gameState = "finished",
                                !.scores    = data.scores]
                 ELSE @]

\* on('drawing'): a start opens a path, a draw extends the last one
onDrawing(cl, data) ==
  IF strokeType[data] = "start"
    THEN [cl EXCEPT !.pathData = Append(@, <<data>>)]
    ELSE IF cl.pathData # <<>>
           THEN [cl EXCEPT !.pathData[Len(cl.pathData)] = Append(@, data)]
           ELSE cl

\* on('canvasCleared')
onCanvasCleared(cl) ==
  [cl EXCEPT !.pathData = <<>>, !.currentPathData = <<>>]

\* on('correctGuess'), on('wrongGuess'): a message, nothing else
onGuessResult(cl, data) == cl

\* the client's on('disconnect')
onDisconnect(cl) == [cl EXCEPT !.isConnected = FALSE]

\* isCurrentDrawer of the client behind socket c
isCurrentDrawer(cl, c) == cl.gameState.set /\ cl.gameState.currentDrawer = c

\* what handleTouchStart does to the state of the client behind socket c
handleTouchStart(cl, c, data) ==
  IF isCurrentDrawer(cl, c)
    THEN [cl EXCEPT !.isDrawing = TRUE, !.currentPathData = << <<data>> >>]
    ELSE cl

\* what handleTouchMove does to the state of the client behind socket c
handleTouchMove(cl, c, data) ==
  IF cl.isDrawing /\ isCurrentDrawer(cl, c)
    THEN [cl EXCEPT !.currentPathData =
                       IF @ # <<>> THEN << Append(@[1], data) >> ELSE @]
    ELSE cl

\* handleTouchEnd
handleTouchEnd(cl) ==
  IF cl.isDrawing
    THEN IF cl.currentPathData # <<>>
           THEN [cl EXCEPT !.isDrawing = FALSE,
                           !.pathData = Append(@, cl.currentPathData[1]),
                           !.currentPathData = <<>>]
           ELSE [cl EXCEPT !.isDrawing = FALSE]
    ELSE cl

\* the strokes of a list of paths, in order
RECURSIVE Flatten(_)
Flatten(paths) ==
  IF paths = <<>> THEN <<>> ELSE paths[1] \o Flatten(Tail(paths))

\* the strokes the <Svg> draws: every path of pathData, then currentPathData
rendered(cl) == Flatten(cl.pathData \o cl.currentPathData)

\* the screen the client shows
joinFormShown(cl) == cl.isConnected /\ ~ cl.gameState.set
waitingShown(cl) ==
  cl.isConnected /\ cl.gameState.set /\ cl.gameState.gameState = "waiting"
playingShown(cl) ==
  cl.isConnected /\ cl.gameState.set /\ cl.gameState.gameState = "playing"

\* one event given to the handler the client registered for it
handle(cl, ev) ==
  CASE ev.event = "roomJoined"    -> onRoomJoined(cl, ev.data)
    [] ev.event = "playerJoined"  -> onPlayerJoined(cl, ev.data)
    [] ev.event = "playerLeft"    -> onPlayerLeft(cl, ev.data)
    [] ev.event = "gameStarted"   -> onGameStarted(cl, ev.data)
    [] ev.event = "nextRound"     -> onNextRound(cl, ev.data)
    [] ev.event = "gameFinished"  -> onGameFinished(cl, ev.data)
    [] ev.event = "drawing"       -> onDrawing(cl, ev.data)
    [] ev.event = "canvasCleared" -> onCanvasCleared(cl)
    [] OTHER                      -> onGuessResult(cl, ev.data)

\* the events of a handler delivered in the order they were emitted, each
\* to the clients it was addressed to
RECURSIVE deliverAll(_, _)
deliverAll(cls, evs) ==
  IF evs = <<>>
    THEN cls
    ELSE deliverAll([c \in DOMAIN cls |->
                       IF c \in evs[1].to THEN handle(cls[c], evs[1])
                                          ELSE cls[c]],
                    Tail(evs))

\* ------------------------------------------------------------------ state
VARIABLES
  games,      \* the Map roomId -> Game
  roomOrder,  \* insertion order of the Map's keys
  conn,       \* per connection: "open" or "closed"
  sockRooms,  \* per connection: the socket.io rooms it has joined
  emitted,    \* the events the running handler has emitted, in order
  intent,     \* the inbound event being dispatched, Idle between events
  clients     \* connection -> the React state of the client behind it

vars == <<games, roomOrder, conn, sockRooms, emitted, intent, clients>>

\* ------------------------------------------------------------ transport
Ev(name, audience, payload) ==
  [event |-> name, to |-> audience, data |-> payload]

\* io.to(roomId): every socket in the socket.io room
WholeRoom(sr, r) == {c \in Conns : r \in sr[c]}
\* socket.to(roomId) that forgets to leave the sender out
RoomExceptSender_WithSender(sr, r, c) == WholeRoom(sr, r)

\* socket.to(roomId): the same, except the sending socket
RoomExceptSender(sr, r, c) == WholeRoom(sr, r) \ {c}
\* socket.emit: the sending socket only
Sender(c) == {c}

\* an inbound socket event: its name, the socket, and its payload
Intent(op, c, r, d) == [op |-> op, conn |-> c, room |-> r, data |-> d]
\* no inbound event is being dispatched
Idle == Intent("idle", null, null, null)

Init ==
  /\ games = <<>>
  /\ roomOrder = <<>>
  /\ conn = [c \in Conns |-> "open"]
  /\ sockRooms = [c \in Conns |-> {}]
  /\ emitted = <<>>
  /\ intent = Idle
  /\ clients = [c \in Conns |-> NewClient]

\* --------------------------------------------------------------- handlers
\* the joinRoom handler without its games.has(roomId) test: every join sets
\* a new Game under the room id
JoinRoom_AlwaysCreates(c, r, playerName) ==
  /\ intent.op = "idle"
  /\ conn[c] = "open"
  /\ r \in DOMAIN games => Len(games[r].players) < MaxPlayers
  /\ LET game == addPlayer(Game(r), c, playerName)
         sr   == [sockRooms EXCEPT ![c] = @ \cup {r}]
     IN /\ sockRooms' = sr
        /\ games' = JsSet(games, r, game)
        /\ roomOrder' = IF r \in DOMAIN games THEN roomOrder
                                              ELSE Append(roomOrder, r)
        /\ emitted' =
             << Ev("roomJoined", Sender(c),
                   [roomId |-> r, players |-> game.players,
                    gameState |-> game.gameState]),
                Ev("playerJoined", RoomExceptSender(sr, r, c),
                   [playerId |-> c, playerName |-> playerName]) >>
  /\ intent' = Intent("joinRoom", c, r, [playerName |-> playerName])
  /\ UNCHANGED <<conn, clients>>

\* the joinRoom handler without its socket.join(roomId)
JoinRoom_NoSocketJoin(c, r, playerName) ==
  /\ intent.op = "idle"
  /\ conn[c] = "open"
  /\ r \in DOMAIN games => Len(games[r].players) < MaxPlayers
  /\ LET g0   == IF r \in DOMAIN games THEN games[r] ELSE Game(r)
         game == addPlayer(g0, c, playerName)
         sr   == sockRooms
     IN /\ sockRooms' = sr
        /\ games' = JsSet(games, r, game)
        /\ roomOrder' = IF r \in DOMAIN games THEN roomOrder
                                              ELSE Append(roomOrder, r)
        /\ emitted' =
             << Ev("roomJoined", Sender(c),
                   [roomId |-> r, players |-> game.players,
                    gameState |-> game.gameState]),
                Ev("playerJoined", RoomExceptSender(sr, r, c),
                   [playerId |-> c, playerName |-> playerName]) >>
  /\ intent' = Intent("joinRoom", c, r, [playerName |-> playerName])
  /\ UNCHANGED <<conn, clients>>

\* socket.on('joinRoom')
JoinRoom(c, r, playerName) ==
  /\ intent.op = "idle"
  /\ conn[c] = "open"
  /\ r \in DOMAIN games => Len(games[r].players) < MaxPlayers
  /\ LET g0   == IF r \in DOMAIN games THEN games[r] ELSE Game(r)
         game == addPlayer(g0, c, playerName)
         sr   == [sockRooms EXCEPT ![c] = @ \cup {r}]
     IN /\ sockRooms' = sr
        /\ games' = JsSet(games, r, game)
        /\ roomOrder' = IF r \in DOMAIN games THEN roomOrder
                                              ELSE Append(roomOrder, r)
        /\ emitted' =
             << Ev("roomJoined", Sender(c),
                   [roomId |-> r, players |-> game.players,
                    gameState |-> game.gameState]),
                Ev("playerJoined", RoomExceptSender(sr, r, c),
                   [playerId |-> c, playerName |-> playerName]) >>
  /\ intent' = Intent("joinRoom", c, r, [playerName |-> playerName])
  /\ UNCHANGED <<conn, clients>>

\* socket.on('startGame')
StartGame(c, r, i) ==
  /\ intent.op = "idle"
  /\ conn[c] = "open"
  /\ IF r \in DOMAIN games /\ startGame(games[r], i).ok
       THEN LET game == startGame(games[r], i).game IN
            /\ games' = [games EXCEPT ![r] = game]
            /\ emitted' =
                 << Ev("gameStarted", WholeRoom(sockRooms, r),
                       [currentDrawer |-> game.currentDrawer,
                        currentWord   |-> game.currentWord,
                        round         |-> game.round,
                        maxRounds     |-> game.maxRounds]) >>
       ELSE /\ games' = games
            /\ emitted' = <<>>
  /\ intent' = Intent("startGame", c, r, null)
  /\ UNCHANGED <<roomOrder, conn, sockRooms, clients>>

\* socket.on('draw'), taken while the log is shorter than cap
DrawTo(c, r, data, cap) ==
  /\ intent.op = "idle"
  /\ conn[c] = "open"
  /\ (r \in DOMAIN games /\ games[r].gameState = "playing")
        => Len(games[r].drawingData) < cap
  /\ IF r \in DOMAIN games /\ games[r].gameState = "playing"
       THEN /\ games' = [games EXCEPT ![r] = addDrawingData(@, data)]
            /\ emitted' =
                 << Ev("drawing", RoomExceptSender(sockRooms, r, c), data) >>
       ELSE /\ games' = games
            /\ emitted' = <<>>
  /\ intent' = Intent("draw", c, r, data)
  /\ UNCHANGED <<roomOrder, conn, sockRooms, clients>>

\* socket.on('draw')
Draw(c, r, data) == DrawTo(c, r, data, MaxLog)

\* the clearCanvas handler wiping the canvas of every game
ClearCanvas_AllRooms(c, r) ==
  /\ intent.op = "idle"
  /\ conn[c] = "open"
  /\ IF r \in DOMAIN games
       THEN /\ games' = [q \in DOMAIN games |-> clearDrawing(games[q])]
            /\ emitted' =
                 << Ev("canvasCleared", RoomExceptSender(sockRooms, r, c),
                       null) >>
       ELSE /\ games' = games
            /\ emitted' = <<>>
  /\ intent' = Intent("clearCanvas", c, r, null)
  /\ UNCHANGED <<roomOrder, conn, sockRooms, clients>>

\* socket.on('clearCanvas')
ClearCanvas(c, r) ==
  /\ intent.op = "idle"
  /\ conn[c] = "open"
  /\ IF r \in DOMAIN games
       THEN /\ games' = [games EXCEPT ![r] = clearDrawing(@)]
            /\ emitted' =
                 << Ev("canvasCleared", RoomExceptSender(sockRooms, r, c),
                       null) >>
       ELSE /\ games' = games
            /\ emitted' = <<>>
  /\ intent' = Intent("clearCanvas", c, r, null)
  /\ UNCHANGED <<roomOrder, conn, sockRooms, clients>>

\* the condition without its test of gameState
isCorrectGuess_AnyPhase(gs, r, guess) ==
  /\ r \in DOMAIN gs
  /\ toLowerCase(gs[r].currentWord) = toLowerCase(guess)

\* the condition of the guess handler's if
isCorrectGuess(gs, r, guess) ==
  /\ r \in DOMAIN gs
  /\ gs[r].gameState = "playing"
  /\ toLowerCase(gs[r].currentWord) = toLowerCase(guess)

\* adding 10 to the guesser's score stays within cap
scoreWithin(scores, c, cap) ==
  JsAdd(JsGetNum(scores, c), 10).nan
    \/ JsAdd(JsGetNum(scores, c), 10).val <= cap

\* the guess handler turning the current drawer's guess into a wrong guess
GuessTo_NotTheDrawer(c, r, guess, playerName, i, cap) ==
  /\ intent.op = "idle"
  /\ conn[c] = "open"
  /\ isCorrectGuess(games, r, guess) => scoreWithin(games[r].scores, c, cap)
  /\ IF isCorrectGuess(games, r, guess) /\ c # games[r].currentDrawer
       THEN LET scored == [games[r] EXCEPT
                             !.scores = JsSet(@, c, JsAdd(JsGetNum(@, c), 10))]
                nr     == nextRound(scored, i)
                game   == nr.game
            IN /\ games' = [games EXCEPT ![r] = game]
               /\ emitted' =
                    << Ev("correctGuess", WholeRoom(sockRooms, r),
                          [playerId |-> c, playerName |-> playerName,
                           guess |-> guess]),
                       IF nr.ok
                         THEN Ev("nextRound", WholeRoom(sockRooms, r),
                                 [currentDrawer |-> game.currentDrawer,
                                  currentWord   |-> game.currentWord,
                                  round         |-> game.round,
                                  scores        |-> game.scores])
                         ELSE Ev("gameFinished", WholeRoom(sockRooms, r),
                                 [scores  |-> game.scores,
                                  players |-> game.players]) >>
       ELSE /\ games' = games
            /\ emitted' =
                 << Ev("wrongGuess", RoomExceptSender(sockRooms, r, c),
                       [playerName |-> playerName, guess |-> guess]) >>
  /\ intent' = Intent("guess", c, r,
                     [guess |-> guess, playerName |-> playerName])
  /\ UNCHANGED <<roomOrder, conn, sockRooms, clients>>

\* socket.on('guess'), taken while the guesser's score stays within cap
GuessTo(c, r, guess, playerName, i, cap) ==
  /\ intent.op = "idle"
  /\ conn[c] = "open"
  /\ isCorrectGuess(games, r, guess) => scoreWithin(games[r].scores, c, cap)
  /\ IF isCorrectGuess(games, r, guess)
       THEN LET scored == [games[r] EXCEPT
                             !.scores = JsSet(@, c, JsAdd(JsGetNum(@, c), 10))]
                nr     == nextRound(scored, i)
                game   == nr.game
            IN /\ games' = [games EXCEPT ![r] = game]
               /\ emitted' =
                    << Ev("correctGuess", WholeRoom(sockRooms, r),
                          [playerId |-> c, playerName |-> playerName,
                           guess |-> guess]),
                       IF nr.ok
                         THEN Ev("nextRound", WholeRoom(sockRooms, r),
                                 [currentDrawer |-> game.currentDrawer,
                                  currentWord   |-> game.currentWord,
                                  round         |-> game.round,
                                  scores        |-> game.scores])
                         ELSE Ev("gameFinished", WholeRoom(sockRooms, r),
                                 [scores  |-> game.scores,
                                  players |-> game.players]) >>
       ELSE /\ games' = games
            /\ emitted' =
                 << Ev("wrongGuess", RoomExceptSender(sockRooms, r, c),
                       [playerName |-> playerName, guess |-> guess]) >>
  /\ intent' = Intent("guess", c, r,
                     [guess |-> guess, playerName |-> playerName])
  /\ UNCHANGED <<roomOrder, conn, sockRooms, clients>>

\* socket.on('guess')
Guess(c, r, guess, playerName, i) ==
  GuessTo(c, r, guess, playerName, i, MaxScore)

\* the disconnect handler without its games.delete(roomId)
Disconnect_KeepsEmptyRoom(c) ==
  /\ intent.op = "idle"
  /\ conn[c] = "open"
  /\ conn' = [conn EXCEPT ![c] = "closed"]
  /\ LET sr      == [sockRooms EXCEPT ![c] = {}]
         hit     == SelectSeq(roomOrder,
                              LAMBDA r : hasPlayer(games[r].players, c))
         after   == [r \in DOMAIN games |->
                       IF hasPlayer(games[r].players, c)
                         THEN removePlayer(games[r], c) ELSE games[r]]
         kept    == DOMAIN games
     IN /\ sockRooms' = sr
        /\ games' = [r \in kept |-> after[r]]
        /\ roomOrder' = SelectSeq(roomOrder, LAMBDA r : r \in kept)
        /\ emitted' =
             [k \in 1..Len(hit) |->
                Ev("playerLeft", RoomExceptSender(sr, hit[k], c),
                   [playerId |-> c,
                    playerName |-> find(games[hit[k]].players, c).name])]
  /\ intent' = Intent("disconnect", c, null, null)
  /\ UNCHANGED clients

\* the disconnect handler leaving its loop after the first room it finds
DisconnectIn_FirstRoomOnly(c, was) ==
  /\ intent.op = "idle"
  /\ conn[c] = was
  /\ conn' = [conn EXCEPT ![c] = "closed"]
  /\ LET sr      == [sockRooms EXCEPT ![c] = {}]
         all     == SelectSeq(roomOrder,
                              LAMBDA r : hasPlayer(games[r].players, c))
         hit     == IF all = <<>> THEN <<>> ELSE <<all[1]>>
         after   == [r \in DOMAIN games |->
                       IF hit # <<>> /\ r = hit[1]
                         THEN removePlayer(games[r], c) ELSE games[r]]
         kept    == {r \in DOMAIN games : Len(after[r].players) # 0}
     IN /\ sockRooms' = sr
        /\ games' = [r \in kept |-> after[r]]
        /\ roomOrder' = SelectSeq(roomOrder, LAMBDA r : r \in kept)
        /\ emitted' =
             [k \in 1..Len(hit) |->
                Ev("playerLeft", RoomExceptSender(sr, hit[k], c),
                   [playerId |-> c,
                    playerName |-> find(games[hit[k]].players, c).name])]
  /\ intent' = Intent("disconnect", c, null, null)
  /\ UNCHANGED clients

\* socket.on('disconnect') run for a socket whose connection state is `was`;
\* socket.io has emptied the socket's rooms before
DisconnectIn(c, was) ==
  /\ intent.op = "idle"
  /\ conn[c] = was
  /\ conn' = [conn EXCEPT ![c] = "closed"]
  /\ LET sr      == [sockRooms EXCEPT ![c] = {}]
         hit     == SelectSeq(roomOrder,
                              LAMBDA r : hasPlayer(games[r].players, c))
         after   == [r \in DOMAIN games |->
                       IF hasPlayer(games[r].players, c)
                         THEN removePlayer(games[r], c) ELSE games[r]]
         kept    == {r \in DOMAIN games : Len(after[r].players) # 0}
     IN /\ sockRooms' = sr
        /\ games' = [r \in kept |-> after[r]]
        /\ roomOrder' = SelectSeq(roomOrder, LAMBDA r : r \in kept)
        /\ emitted' =
             [k \in 1..Len(hit) |->
                Ev("playerLeft", RoomExceptSender(sr, hit[k], c),
                   [playerId |-> c,
                    playerName |-> find(games[hit[k]].players, c).name])]
  /\ intent' = Intent("disconnect", c, null, null)
  /\ UNCHANGED clients

\* socket.on('disconnect'), fired by socket.io when an open socket closes
Disconnect(c) == DisconnectIn(c, "open")

\* games.size counting the players of all games
activeGames_CountsPlayers(gs) ==
  Cardinality({rk \in (DOMAIN gs) \X (1..MaxPlayers) :
                 rk[2] <= Len(gs[rk[1]].players)})

\* games.size
activeGames(gs) == Cardinality(DOMAIN gs)

\* res.json(body): the reply of an HTTP request, which goes to no socket
Res(body) == [event |-> "response", to |-> {}, data |-> body]

\* app.get('/health')
Health ==
  /\ intent.op = "idle"
  /\ emitted' = << Res([status |-> "ok", activeGames |-> activeGames(games)]) >>
  /\ intent' = Intent("health", null, null, null)
  /\ UNCHANGED <<games, roomOrder, conn, sockRooms, clients>>

\* The handler has returned: its events are with the transport and the
\* dispatcher takes the next inbound event.
Deliver ==
  /\ intent.op # "idle"
  /\ emitted' = <<>>
  /\ intent' = Idle
  /\ UNCHANGED <<games, roomOrder, conn, sockRooms, clients>>

Next ==
  \/ \E c \in Conns, r \in OneRoom : JoinRoom(c, r, playerNameOf[c])
  \/ \E c \in Conns, r \in OneRoom, i \in RandomIndices : StartGame(c, r, i)
  \/ \E c \in Conns, r \in OneRoom, d \in OneStroke : Draw(c, r, d)
  \/ \E c \in Conns, r \in OneRoom : ClearCanvas(c, r)
  \/ \E c \in Conns, r \in OneRoom, g \in Guesses, i \in RandomIndices :
        Guess(c, r, g, playerNameOf[c], i)
  \/ \E c \in Conns : Disconnect(c)
  \/ Health
  \/ Deliver

Spec == Init /\ [][Next]_vars

\* The same handlers with two kinds of stroke and a log one entry longer,
\* driven by two connections.
TwoConns == {"A", "B"}
NextDraw ==
  \/ \E c \in TwoConns, r \in OneRoom : JoinRoom(c, r, playerNameOf[c])
  \/ \E c \in TwoConns, r \in OneRoom, i \in RandomIndices :
        StartGame(c, r, i)
  \/ \E c \in TwoConns, r \in OneRoom, d \in Strokes :
        DrawTo(c, r, d, MaxLog + 1)
  \/ \E c \in TwoConns, r \in OneRoom : ClearCanvas(c, r)
  \/ \E c \in TwoConns, r \in OneRoom, g \in Guesses, i \in RandomIndices :
        Guess(c, r, g, playerNameOf[c], i)
  \/ \E c \in TwoConns : Disconnect(c)
  \/ Deliver

SpecDraw == Init /\ [][NextDraw]_vars

\* ================================================================ claims
\* the ids on a players list
Ids(ps) == {ps[k].id : k \in 1..Len(ps)}
\* the step just taken handled inbound event `op` addressed to room r
Handled(op, r) == intent'.op = op /\ intent'.room = r
\* the names of the events on a list of emitted events
EventNames(evs) == {evs[k].event : k \in 1..Len(evs)}

\* C1: Finished is terminal: once a room's phase is finished, no intent on
\* that room instance changes its phase again; in particular startGame on a
\* finished room changes no state and emits no event.
C1_FinishedIsTerminal ==
  [][\A r \in DOMAIN games :
       games[r].gameState = "finished" =>
         /\ r \in DOMAIN games' => games'[r].gameState = "finished"
         /\ Handled("startGame", r) => games' = games /\ emitted' = <<>>]_vars

\* C2: startGame on a room whose phase is playing is a no-op: round,
\* currentDrawer, currentWord and drawingData are unchanged and no
\* gameStarted is emitted.
C2_StartWhilePlayingIsNoOp ==
  [][\A r \in DOMAIN games :
       (Handled("startGame", r) /\ games[r].gameState = "playing") =>
         /\ games'[r].round = games[r].round
         /\ games'[r].currentDrawer = games[r].currentDrawer
         /\ games'[r].currentWord = games[r].currentWord
         /\ games'[r].drawingData = games[r].drawingData
         /\ "gameStarted" \notin EventNames(emitted')]_vars

\* C3: startGame on a room with fewer than 2 players changes no room state
\* (a waiting room stays waiting with round 0) and emits no event.
C3_StartNeedsTwoPlayers ==
  [][\A r \in DOMAIN games :
       (Handled("startGame", r) /\ Len(games[r].players) < 2) =>
         /\ games' = games
         /\ roomOrder' = roomOrder
         /\ sockRooms' = sockRooms
         /\ emitted' = <<>>]_vars

\* C3 witness: startGame was handled for a waiting room with one player,
\* which is still waiting at round 0, and nothing was emitted.
C3_Witness ==
  /\ intent.op = "startGame"
  /\ intent.room \in DOMAIN games
  /\ Len(games[intent.room].players) = 1
  /\ games[intent.room].gameState = "waiting"
  /\ games[intent.room].round = 0
  /\ emitted = <<>>

\* C4: startGame on a waiting room with 2 or more players sets gameState to
\* playing, round to 1, currentDrawer to the first player's id, currentWord
\* to a word of the vocabulary and drawingData to empty, and emits exactly
\* one gameStarted carrying that drawer, word, round 1 and maxRounds to every
\* player of the room.
C4_StartFromWaiting ==
  [][\A r \in DOMAIN games :
       ( /\ Handled("startGame", r)
         /\ games[r].gameState = "waiting"
         /\ Len(games[r].players) >= 2 ) =>
         /\ games'[r].gameState = "playing"
         /\ games'[r].round = 1
         /\ games'[r].currentDrawer = games[r].players[1].id
         /\ \E k \in 1..Len(words) : games'[r].currentWord = words[k]
         /\ games'[r].drawingData = <<>>
         /\ Len(emitted') = 1
         /\ emitted'[1].event = "gameStarted"
         /\ emitted'[1].to = Ids(games[r].players)
         /\ emitted'[1].data =
              [currentDrawer |-> games[r].players[1].id,
               currentWord   |-> games'[r].currentWord,
               round         |-> 1,
               maxRounds     |-> 3]]_vars

\* C4 witness: a game of three players that has just been started and in
\* which nobody has scored yet.
C4_Witness ==
  /\ intent.op = "startGame"
  /\ intent.room \in DOMAIN games
  /\ LET g == games[intent.room] IN
       /\ Len(g.players) = 3
       /\ g.gameState = "playing"
       /\ g.round = 1
       /\ \A c \in DOMAIN g.scores : g.scores[c] = Num(0)
       /\ Len(emitted) = 1
       /\ emitted[1].event = "gameStarted"

\* C5: in every reachable state of every room the key set of scores equals
\* the set of ids of the current players.
C5_ScoreKeysArePlayerIds ==
  \A r \in DOMAIN games : DOMAIN games[r].scores = Ids(games[r].players)

\* C6: after any joinRoom, also a repeated one, players holds exactly one
\* entry with the joiner's id and the joiner's score is 0.
C6_JoinKeepsIdsUnique ==
  (intent.op = "joinRoom") =>
    LET g == games[intent.room] IN
      /\ Cardinality({k \in 1..Len(g.players) :
                        g.players[k].id = intent.conn}) = 1
      /\ g.scores[intent.conn] = Num(0)

\* C7: whenever a room is playing, currentDrawer is the id of one of its
\* current players and currentWord is not empty.
C7_DrawerIsAPlayer ==
  \A r \in DOMAIN games :
    games[r].gameState = "playing" =>
      /\ games[r].currentDrawer \in Ids(games[r].players)
      /\ games[r].currentWord # <<>>

\* C8: round = 0 only if the room is waiting; playing implies
\* 1 <= round <= maxRounds; finished implies round > maxRounds.
C8_RoundMatchesPhase ==
  \A r \in DOMAIN games :
    LET g == games[r] IN
      /\ g.round = 0 => g.gameState = "waiting"
      /\ g.gameState = "playing" => (1 <= g.round /\ g.round <= 3)
      /\ g.gameState = "finished" => g.round > 3

\* C8 witness: a finished room, whose round counter has passed maxRounds.
C8_Witness ==
  \E r \in DOMAIN games :
    games[r].gameState = "finished" /\ games[r].round = 4

\* C9: on a matching guess while playing with round < maxRounds, the new
\* currentDrawer is the player one position after the old currentDrawer in
\* the players list as it is at that time, the last position wrapping to the
\* first.
C9_DrawerRotates ==
  [][\A r \in DOMAIN games :
       ( /\ Handled("guess", r)
         /\ games[r].gameState = "playing"
         /\ games[r].round < 3
         /\ toLowerCase(intent'.data.guess) = toLowerCase(games[r].currentWord) ) =>
         LET ps == games[r].players IN
           \A k \in 1..Len(ps) :
             ( /\ ps[k].id = games[r].currentDrawer
               /\ \A j \in 1..(k - 1) : ps[j].id # games[r].currentDrawer ) =>
               games'[r].currentDrawer =
                 ps[IF k = Len(ps) THEN 1 ELSE k + 1].id]_vars

\* C9 witness: in a room of two distinct players the turn has wrapped round
\* to the first player for round 3.
C9_Witness ==
  /\ intent.op = "guess"
  /\ intent.room \in DOMAIN games
  /\ LET g == games[intent.room] IN
       /\ Len(g.players) = 2
       /\ g.players[1].id # g.players[2].id
       /\ g.round = 3
       /\ g.currentDrawer = g.players[1].id
       /\ "nextRound" \in EventNames(emitted)

\* C10: a matching guess while playing with round = maxRounds sets gameState
\* to finished and emits gameFinished with scores and players to every
\* player, and no nextRound; currentDrawer, currentWord and drawingData are
\* left as they were.
C10_LastRoundFinishes ==
  [][\A r \in DOMAIN games :
       ( /\ Handled("guess", r)
         /\ games[r].gameState = "playing"
         /\ games[r].round = 3
         /\ toLowerCase(intent'.data.guess) = toLowerCase(games[r].currentWord) ) =>
         /\ games'[r].gameState = "finished"
         /\ "nextRound" \notin EventNames(emitted')
         /\ \E k \in 1..Len(emitted') :
              /\ emitted'[k].event = "gameFinished"
              /\ emitted'[k].to = Ids(games[r].players)
              /\ emitted'[k].data = [scores  |-> games'[r].scores,
                                     players |-> games'[r].players]
         /\ games'[r].currentDrawer = games[r].currentDrawer
         /\ games'[r].currentWord = games[r].currentWord
         /\ games'[r].drawingData = games[r].drawingData]_vars

\* C10 witness: the game has just finished on a guess, with a stroke still
\* on the canvas.
C10_Witness ==
  /\ intent.op = "guess"
  /\ intent.room \in DOMAIN games
  /\ games[intent.room].gameState = "finished"
  /\ games[intent.room].drawingData # <<>>
  /\ "gameFinished" \in EventNames(emitted)

\* the step just taken handled a guess for room r whose text matches the
\* room's word while the room was playing
MatchingGuessWhilePlaying(r) ==
  /\ Handled("guess", r)
  /\ games[r].gameState = "playing"
  /\ toLowerCase(intent'.data.guess) = toLowerCase(games[r].currentWord)

\* C11: a matching guess while playing adds exactly 10 to the guesser's score
\* and changes no other score, emits correctGuess to the whole room, sender
\* included, and then exactly one nextRound or gameFinished to the whole
\* room, which carries the updated scores.
C11_MatchingGuessScoresTen ==
  [][\A r \in DOMAIN games :
       MatchingGuessWhilePlaying(r) =>
         LET c   == intent'.conn
             old == games[r].scores
             new == games'[r].scores
         IN /\ c \in DOMAIN old
            /\ DOMAIN new = DOMAIN old
            /\ ~new[c].nan
            /\ new[c].val = old[c].val + 10
            /\ \A k \in (DOMAIN old) \ {c} : new[k] = old[k]
            /\ Len(emitted') = 2
            /\ emitted'[1].event = "correctGuess"
            /\ c \in emitted'[1].to
            /\ emitted'[1].to = Ids(games[r].players)
            /\ emitted'[2].event \in {"nextRound", "gameFinished"}
            /\ emitted'[2].to = Ids(games[r].players)
            /\ emitted'[2].data.scores = new]_vars

\* C12: a non-matching guess while playing changes no room state and emits
\* exactly one wrongGuess to every player of the room except the sender; the
\* sender receives nothing.
C12_WrongGuessChangesNothing ==
  [][\A r \in DOMAIN games :
       ( /\ Handled("guess", r)
         /\ games[r].gameState = "playing"
         /\ toLowerCase(intent'.data.guess) # toLowerCase(games[r].currentWord) ) =>
         /\ games' = games
         /\ Len(emitted') = 1
         /\ emitted'[1].event = "wrongGuess"
         /\ emitted'[1].to = Ids(games[r].players) \ {intent'.conn}
         /\ emitted'[1].data = [playerName |-> intent'.data.playerName,
                                guess      |-> intent'.data.guess]]_vars

\* C12 witness: a player of a playing room has guessed wrong and the other
\* players are told.
C12_Witness ==
  /\ intent.op = "guess"
  /\ intent.room \in DOMAIN games
  /\ games[intent.room].gameState = "playing"
  /\ intent.conn \in Ids(games[intent.room].players)
  /\ Len(emitted) = 1
  /\ emitted[1].event = "wrongGuess"
  /\ emitted[1].to # {}

\* C13: a guess for an existing room that is waiting or finished takes the
\* no-match branch even when its text equals currentWord: wrongGuess goes to
\* the room except the sender, no score changes and the round does not
\* advance.
C13_GuessOutsidePlaying ==
  [][\A r \in DOMAIN games :
       ( /\ Handled("guess", r)
         /\ games[r].gameState \in {"waiting", "finished"} ) =>
         /\ games'[r].scores = games[r].scores
         /\ games'[r].round = games[r].round
         /\ games'[r].gameState = games[r].gameState
         /\ Len(emitted') = 1
         /\ emitted'[1].event = "wrongGuess"
         /\ emitted'[1].to = Ids(games[r].players) \ {intent'.conn}]_vars

\* C13 witness: a finished room was sent its own word as a guess and
\* answered with wrongGuess.
C13_Witness ==
  /\ intent.op = "guess"
  /\ intent.room \in DOMAIN games
  /\ games[intent.room].gameState = "finished"
  /\ intent.data.guess = games[intent.room].currentWord
  /\ Len(emitted) = 1
  /\ emitted[1].event = "wrongGuess"

\* C14: startGame, draw, clearCanvas and guess that name a room id with no
\* room in the registry are silent no-ops: no room is created, no room
\* changes and no event is emitted.
C14_MissingRoomIsNoOp ==
  [][( /\ intent'.op \in {"startGame", "draw", "clearCanvas", "guess"}
       /\ intent'.room \notin DOMAIN games ) =>
       /\ games' = games
       /\ roomOrder' = roomOrder
       /\ emitted' = <<>>]_vars

\* ------------------------------------------- the match decision on its own
Lowers ==
  << "a","b","c","d","e","f","g","h","i","j","k","l","m",
     "n","o","p","q","r","s","t","u","v","w","x","y","z" >>
Uppers ==
  << "A","B","C","D","E","F","G","H","I","J","K","L","M",
     "N","O","P","Q","R","S","T","U","V","W","X","Y","Z" >>
\* the capital of a small letter, other characters as they are
Capital(ch) ==
  IF \E j \in 1..26 : Lowers[j] = ch
    THEN Uppers[CHOOSE j \in 1..26 : Lowers[j] = ch] ELSE ch
\* the small letter of a capital, other characters as they are
Fold(ch) ==
  IF \E j \in 1..26 : Uppers[j] = ch
    THEN Lowers[CHOOSE j \in 1..26 : Uppers[j] = ch] ELSE ch
\* the reference comparison: same length, and position by position the same
\* character once capitals are folded
RefMatch(a, b) ==
  /\ Len(a) = Len(b)
  /\ \A k \in 1..Len(a) : Fold(a[k]) = Fold(b[k])

\* the words the guesses of SpecMatch are built from: cat, car, flower
MatchSeeds == {words[1], words[5], words[10]}
\* a word as typed in several ways: as it is, in capitals, with a capital
\* initial, with a letter more, a letter less, and with a blank before or
\* after it
Variants(w) ==
  { w,
    [k \in 1..Len(w) |-> Capital(w[k])],
    [k \in 1..Len(w) |-> IF k = 1 THEN Capital(w[k]) ELSE w[k]],
    Append(w, "s"),
    SubSeq(w, 1, Len(w) - 1),
    <<" ">> \o w,
    Append(w, " ") }
MatchGuesses == UNION {Variants(w) : w \in MatchSeeds} \cup {<<>>}
\* every index Math.floor(Math.random() * words.length) can take
AllIndices == 0..(Len(words) - 1)

\* A and B have joined r1 and the game was started with any word
InitMatch ==
  /\ \E i \in AllIndices :
       LET gA   == addPlayer(Game("r1"), "A", playerNameOf["A"])
           gAB  == addPlayer(gA, "B", playerNameOf["B"])
           game == startGame(gAB, i).game
           joined(g) == onRoomJoined(NewClient,
                                     [roomId |-> "r1", players |-> g.players,
                                      gameState |-> g.gameState])
           started == [currentDrawer |-> game.currentDrawer,
                       currentWord   |-> game.currentWord,
                       round         |-> game.round,
                       maxRounds     |-> game.maxRounds]
       IN /\ games = [r \in {"r1"} |-> game]
          /\ clients = [c \in Conns |->
                          CASE c = "A" -> onGameStarted(joined(gA), started)
                            [] c = "B" -> onGameStarted(joined(gAB), started)
                            [] OTHER   -> NewClient]
  /\ roomOrder = <<"r1">>
  /\ conn = [c \in Conns |-> "open"]
  /\ sockRooms = [c \in Conns |-> IF c \in {"A", "B"} THEN {"r1"} ELSE {}]
  /\ emitted = <<>>
  /\ intent = Idle

NextMatch ==
  \/ \E g \in MatchGuesses, i \in AllIndices :
        Guess("B", "r1", g, playerNameOf["B"], i)
  \/ Deliver

SpecMatch == InitMatch /\ [][NextMatch]_vars

\* C15: while playing, a guess is a match exactly when guess and currentWord
\* are equal after lower-casing both, as whole strings, with no trimming and
\* no prefix match: for every word of the vocabulary and every guess of
\* MatchGuesses the branch the handler takes is the one the reference
\* comparison gives.
C15_MatchIsCaseInsensitiveEquality ==
  [][\A r \in DOMAIN games :
       (Handled("guess", r) /\ games[r].gameState = "playing") =>
         /\ Len(emitted') >= 1
         /\ emitted'[1].event \in {"correctGuess", "wrongGuess"}
         /\ (emitted'[1].event = "correctGuess")
              <=> RefMatch(intent'.data.guess, games[r].currentWord)]_vars

\* C15 witness: the guess in capitals was taken as a match.
C15_Witness ==
  /\ intent.op = "guess"
  /\ intent.data.guess = <<"C", "A", "T">>
  /\ Len(emitted) = 2
  /\ emitted[1].event = "correctGuess"

\* C16: draw is effective only while playing: then it appends the stroke at
\* the end of drawingData and emits one drawing to the room except the
\* sender, whoever the sender is; in waiting or finished it leaves
\* drawingData unchanged and emits nothing.
C16_DrawOnlyWhilePlaying ==
  [][\A r \in DOMAIN games :
       Handled("draw", r) =>
         IF games[r].gameState = "playing"
           THEN /\ games'[r].drawingData =
                     games[r].drawingData \o <<intent'.data>>
                /\ Len(emitted') = 1
                /\ emitted'[1].event = "drawing"
                /\ emitted'[1].to = Ids(games[r].players) \ {intent'.conn}
                /\ emitted'[1].data = intent'.data
           ELSE /\ games'[r].drawingData = games[r].drawingData
                /\ emitted' = <<>>]_vars

\* C16 witness: a stroke sent by a connection that is not the current drawer
\* stands last on the log of a playing room, behind a different stroke, and
\* was relayed.
C16_Witness ==
  /\ intent.op = "draw"
  /\ intent.room \in DOMAIN games
  /\ games[intent.room].gameState = "playing"
  /\ intent.conn # games[intent.room].currentDrawer
  /\ Len(games[intent.room].drawingData) = 2
  /\ games[intent.room].drawingData[1] # intent.data
  /\ games[intent.room].drawingData[2] = intent.data
  /\ Len(emitted) = 1
  /\ emitted[1].event = "drawing"
  /\ emitted[1].to # {}

\* C17: clearCanvas is unconditional and idempotent: in any phase and from
\* any sender a call on an existing room leaves drawingData empty, changes
\* no other field of any room and emits one canvasCleared to the room except
\* the sender; on an already empty log it changes nothing and still emits.
C17_ClearIsIdempotent ==
  [][\A r \in DOMAIN games :
       Handled("clearCanvas", r) =>
         /\ games' = [games EXCEPT ![r].drawingData = <<>>]
         /\ games[r].drawingData = <<>> => games' = games
         /\ roomOrder' = roomOrder
         /\ Len(emitted') = 1
         /\ emitted'[1].event = "canvasCleared"
         /\ emitted'[1].to = Ids(games[r].players) \ {intent'.conn}]_vars

\* C17 witness: a finished room, where no stroke is accepted any more, has
\* had its canvas cleared and its other players were told.
C17_Witness ==
  /\ intent.op = "clearCanvas"
  /\ intent.room \in DOMAIN games
  /\ games[intent.room].gameState = "finished"
  /\ games[intent.room].drawingData = <<>>
  /\ Len(emitted) = 1
  /\ emitted[1].event = "canvasCleared"
  /\ emitted[1].to # {}

\* C18: drawingData is empty at the start of every round: in the state right
\* after a handler emitted gameStarted or nextRound, the room's drawingData
\* is empty.
C18_RoundStartsWithEmptyLog ==
  \A k \in 1..Len(emitted) :
    emitted[k].event \in {"gameStarted", "nextRound"} =>
      games[intent.room].drawingData = <<>>

\* C18 witness: round 2 has just begun and its log is empty.
C18_Witness ==
  /\ intent.op = "guess"
  /\ Len(emitted) = 2
  /\ emitted[2].event = "nextRound"
  /\ games[intent.room].round = 2
  /\ games[intent.room].drawingData = <<>>

\* C19: when a player disconnects from a room that still has other players,
\* only that player's entries in players and scores go and one playerLeft is
\* emitted to the remaining players; gameState, round, currentDrawer,
\* currentWord, drawingData and all other scores stay, also when the player
\* was the current drawer.
C19_LeaveRemovesOnlyThePlayer ==
  [][intent'.op = "disconnect" =>
       \A r \in DOMAIN games :
         LET c == intent'.conn
             g == games[r]
         IN (c \in Ids(g.players) /\ Ids(g.players) # {c}) =>
              /\ r \in DOMAIN games'
              /\ games'[r].players = SelectSeq(g.players, LAMBDA p : p.id # c)
              /\ DOMAIN games'[r].scores = (DOMAIN g.scores) \ {c}
              /\ \A k \in DOMAIN games'[r].scores :
                   games'[r].scores[k] = g.scores[k]
              /\ games'[r].gameState = g.gameState
              /\ games'[r].round = g.round
              /\ games'[r].currentDrawer = g.currentDrawer
              /\ games'[r].currentWord = g.currentWord
              /\ games'[r].drawingData = g.drawingData
              /\ Len(emitted') =
                   Cardinality({q \in DOMAIN games : c \in Ids(games[q].players)})
              /\ \E k \in 1..Len(emitted') :
                   /\ emitted'[k].event = "playerLeft"
                   /\ emitted'[k].to = Ids(g.players) \ {c}
                   /\ emitted'[k].data.playerId = c
                   /\ \E j \in 1..Len(g.players) :
                        /\ g.players[j].id = c
                        /\ emitted'[k].data.playerName = g.players[j].name]_vars

\* C19 witness: the current drawer of a playing room has left and the
\* remaining players were told; the room still plays with the drawer it had.
C19_Witness ==
  /\ intent.op = "disconnect"
  /\ Len(emitted) = 1
  /\ emitted[1].event = "playerLeft"
  /\ emitted[1].to # {}
  /\ \E r \in DOMAIN games :
       /\ games[r].gameState = "playing"
       /\ games[r].currentDrawer = intent.conn

\* C20: a room is destroyed in the step in which its last player leaves, in
\* any phase, so no room is ever without players; a join to a room id that
\* has no room creates a fresh one: waiting, round 0, empty log, no drawer,
\* and the joiner as its only player, with score 0.
C20_EmptyRoomIsDestroyed ==
  [][/\ \A r \in DOMAIN games' : Len(games'[r].players) > 0
     /\ intent'.op = "disconnect" =>
          \A r \in DOMAIN games :
            Ids(games[r].players) = {intent'.conn} => r \notin DOMAIN games'
     /\ (intent'.op = "joinRoom" /\ intent'.room \notin DOMAIN games) =>
          /\ intent'.room \in DOMAIN games'
          /\ games'[intent'.room] =
               [ roomId        |-> intent'.room,
                 players       |-> << [id   |-> intent'.conn,
                                       name |-> intent'.data.playerName] >>,
                 currentDrawer |-> "null",
                 currentWord   |-> <<>>,
                 gameState     |-> "waiting",
                 round         |-> 0,
                 maxRounds     |-> 3,
                 scores        |-> (intent'.conn :> [nan |-> FALSE, val |-> 0]),
                 drawingData   |-> <<>> ]]_vars

\* C20 witness: someone has already disconnected, and a join has just
\* created the room anew with the joiner alone in it.
C20_Witness ==
  /\ intent.op = "joinRoom"
  /\ \E c \in Conns : conn[c] = "closed"
  /\ intent.room \in DOMAIN games
  /\ Len(games[intent.room].players) = 1
  /\ games[intent.room].gameState = "waiting"
  /\ games[intent.room].round = 0
  /\ Len(emitted) = 2
  /\ emitted[1].event = "roomJoined"

\* C25: a room's gameState never returns to waiting once it has left it; it
\* leaves waiting only in a startGame handled with 2 or more players; it
\* becomes finished only from playing, in a matching guess handled when
\* round = maxRounds; and a join, a stroke, a clear, a non-matching guess or
\* a disconnect never changes the gameState of a room.
C25_PhaseMachine ==
  [][\A r \in (DOMAIN games) \cap (DOMAIN games') :
       LET was == games[r].gameState
           is  == games'[r].gameState
       IN /\ was # "waiting" => is # "waiting"
          /\ (was = "waiting" /\ is # "waiting") =>
                /\ Handled("startGame", r)
                /\ Len(games[r].players) >= 2
          /\ (was # "finished" /\ is = "finished") =>
                /\ was = "playing"
                /\ Handled("guess", r)
                /\ toLowerCase(intent'.data.guess) =
                     toLowerCase(games[r].currentWord)
                /\ games[r].round = games[r].maxRounds
          /\ ( \/ intent'.op \in {"joinRoom", "draw", "clearCanvas",
                                   "disconnect"}
               \/ /\ intent'.op = "guess"
                  /\ ~ (/\ intent'.room = r
                        /\ was = "playing"
                        /\ toLowerCase(intent'.data.guess) =
                             toLowerCase(games[r].currentWord)) ) =>
                is = was]_vars

\* C25 witness: a join has just been handled in a finished room, which is
\* still finished.
C25_Witness ==
  /\ intent.op = "joinRoom"
  /\ intent.room \in DOMAIN games
  /\ games[intent.room].gameState = "finished"
  /\ games[intent.room].round = 4

\* C26: a joinRoom appends the joiner at the end of players and leaves the
\* order of the players before it, whatever the gameState; it emits
\* roomJoined to the sender alone, carrying the room id, the players with the
\* joiner among them and the gameState, and playerJoined to every other
\* player of the room and not to the sender.
C26_JoinAppendsAndAnnounces ==
  [][\A r \in OneRoom :
       Handled("joinRoom", r) =>
         LET c      == intent'.conn
             before == IF r \in DOMAIN games THEN games[r].players ELSE <<>>
             state  == IF r \in DOMAIN games THEN games[r].gameState
                                             ELSE "waiting"
             joiner == [id |-> c, name |-> intent'.data.playerName]
         IN /\ r \in DOMAIN games'
            /\ games'[r].players = Append(before, joiner)
            /\ games'[r].gameState = state
            /\ Len(emitted') = 2
            /\ emitted'[1].event = "roomJoined"
            /\ emitted'[1].to = {c}
            /\ emitted'[1].data = [roomId    |-> r,
                                   players   |-> Append(before, joiner),
                                   gameState |-> state]
            /\ emitted'[2].event = "playerJoined"
            /\ emitted'[2].to = Ids(before) \ {c}
            /\ emitted'[2].data = [playerId   |-> c,
                                   playerName |-> intent'.data.playerName]]_vars

\* C26 witness: a third player has just joined a playing room and stands
\* last, and the two players before it were told.
C26_Witness ==
  /\ intent.op = "joinRoom"
  /\ intent.room \in DOMAIN games
  /\ games[intent.room].gameState = "playing"
  /\ Len(games[intent.room].players) = 3
  /\ games[intent.room].players[3].id = intent.conn
  /\ games[intent.room].players[1].id # intent.conn
  /\ Len(emitted) = 2
  /\ Cardinality(emitted[2].to) = 2

\* ------------------------------------------------- one game, fixed players
\* The same handlers for one game played through by the players it started
\* with: joins, disconnects and startGame are taken only while the room is
\* waiting.
notStarted(r) == r \in DOMAIN games => games[r].gameState = "waiting"

NextTurns ==
  \/ \E c \in Conns, r \in OneRoom :
        notStarted(r) /\ JoinRoom(c, r, playerNameOf[c])
  \/ \E c \in Conns, r \in OneRoom, i \in RandomIndices :
        notStarted(r) /\ StartGame(c, r, i)
  \/ \E c \in Conns, r \in OneRoom, d \in OneStroke : Draw(c, r, d)
  \/ \E c \in Conns, r \in OneRoom : ClearCanvas(c, r)
  \/ \E c \in Conns, r \in OneRoom, g \in Guesses, i \in RandomIndices :
        Guess(c, r, g, playerNameOf[c], i)
  \/ \E c \in Conns : (\A r \in OneRoom : notStarted(r)) /\ Disconnect(c)
  \/ Deliver

SpecTurns == Init /\ [][NextTurns]_vars

\* C30: in a game played by the n players it started with, with no join,
\* disconnect or further startGame after the start, the drawer of round k,
\* 1 <= k <= maxRounds, is the player at position (k - 1) mod n of players.
C30_DrawerOfRoundK ==
  \A r \in DOMAIN games :
    LET g == games[r]
        n == Len(g.players)
    IN (g.gameState = "playing" /\ g.round >= 1 /\ g.round <= g.maxRounds) =>
         g.currentDrawer = g.players[((g.round - 1) % n) + 1].id

\* ------------------------------------------------------------- two rooms
\* The same handlers with two room ids and two connections, each free to
\* join both rooms, once each; one word and two guesses, one that matches
\* it and one that does not. DisconnectIn(c, "closed") runs the disconnect
\* handler once more for a socket that has already disconnected.
FirstWord == {0}
RoomGuesses == { <<"C", "A", "T">>, <<"d", "o", "g">> }
notYetIn(c, r) == r \in DOMAIN games => ~ hasPlayer(games[r].players, c)

NextRooms ==
  \/ \E c \in TwoConns, r \in Rooms :
        notYetIn(c, r) /\ JoinRoom(c, r, playerNameOf[c])
  \/ \E c \in TwoConns, r \in Rooms, i \in FirstWord : StartGame(c, r, i)
  \/ \E c \in TwoConns, r \in Rooms, d \in OneStroke : Draw(c, r, d)
  \/ \E c \in TwoConns, r \in Rooms : ClearCanvas(c, r)
  \/ \E c \in TwoConns, r \in Rooms, g \in RoomGuesses, i \in FirstWord :
        Guess(c, r, g, playerNameOf[c], i)
  \/ \E c \in TwoConns : DisconnectIn(c, "open")
  \/ \E c \in TwoConns : DisconnectIn(c, "closed")
  \/ Health
  \/ Deliver

SpecRooms == Init /\ [][NextRooms]_vars

\* C22: in whatever order joins to one room id and disconnects are handled,
\* the registry holds one room under an id, every connection that has joined
\* the id and has not disconnected is among that room's players, and so a
\* joiner is never left in a room the registry lacks: no join is lost to a
\* second create or to the removal of the room its last player left.
C22_NoJoinIsLost ==
  /\ \A c \in Conns : \A r \in sockRooms[c] :
       /\ r \in DOMAIN games
       /\ hasPlayer(games[r].players, c)
  /\ \A r \in DOMAIN games :
       Cardinality({k \in 1..Len(roomOrder) : roomOrder[k] = r}) = 1
  /\ \A k \in 1..Len(roomOrder) : roomOrder[k] \in DOMAIN games

\* C22 witness: three connections joined a room id one after another, the
\* one that made the room has disconnected since, and the other two are its
\* players.
C22_Witness ==
  /\ intent.op = "disconnect"
  /\ \E r \in DOMAIN games :
       /\ Len(games[r].players) = 2
       /\ Cardinality(Ids(games[r].players)) = 2
       /\ \A c \in Ids(games[r].players) : r \in sockRooms[c]
       /\ games[r].gameState = "waiting"

\* the rooms whose players include connection c
RoomsOf(gs, c) == {r \in DOMAIN gs : hasPlayer(gs[r].players, c)}

\* C21: once the disconnect of a connection c has been handled, c is on the
\* players list of no room, whether it was in none, one or several; there is
\* exactly one playerLeft per room that had c, addressed to the players that
\* room has left; and a disconnect handled for a connection that has already
\* disconnected changes nothing and emits nothing.
C21_DisconnectCleansEveryRoom ==
  [][intent'.op = "disconnect" =>
       LET c   == intent'.conn
           had == RoomsOf(games, c)
       IN /\ RoomsOf(games', c) = {}
          /\ Len(emitted') = Cardinality(had)
          /\ \E f \in [had -> 1..Len(emitted')] :
                /\ \A r, q \in had : f[r] = f[q] => r = q
                /\ \A r \in had :
                     /\ emitted'[f[r]].event = "playerLeft"
                     /\ emitted'[f[r]].to = Ids(games[r].players) \ {c}
                     /\ emitted'[f[r]].data.playerId = c
          /\ conn[c] = "closed" =>
                /\ games' = games
                /\ roomOrder' = roomOrder
                /\ sockRooms' = sockRooms
                /\ conn' = conn
                /\ emitted' = <<>>]_vars

\* C21 witness: a connection that was a player of both rooms has
\* disconnected; two playerLeft went out, one of them to a player who stays.
C21_Witness ==
  /\ intent.op = "disconnect"
  /\ Len(emitted) = 2
  /\ \E k \in 1..2 : emitted[k].to # {}
  /\ RoomsOf(games, intent.conn) = {}
  /\ games # <<>>

\* C24: a joinRoom, startGame, draw, clearCanvas or guess addressed to room r
\* leaves every other room as it was, present or absent, and emits only to
\* players of r; a disconnect leaves every room unchanged whose players do
\* not include the disconnecting connection.
C24_RoomsAreIndependent ==
  [][/\ \A r \in Rooms :
          ( /\ intent'.op \in {"joinRoom", "startGame", "draw", "clearCanvas",
                                "guess"}
            /\ intent'.room = r ) =>
            /\ \A q \in Rooms \ {r} :
                 /\ q \in DOMAIN games' <=> q \in DOMAIN games
                 /\ q \in DOMAIN games => games'[q] = games[q]
            /\ \A k \in 1..Len(emitted') :
                 emitted'[k].to \subseteq
                   (IF r \in DOMAIN games' THEN Ids(games'[r].players) ELSE {})
     /\ intent'.op = "disconnect" =>
          \A q \in (DOMAIN games) \ RoomsOf(games, intent'.conn) :
            /\ q \in DOMAIN games'
            /\ games'[q] = games[q]]_vars

\* C24 witness: a stroke has just been added to one playing room and sent to
\* its other player while the other room, also playing, has an empty canvas.
C24_Witness ==
  /\ intent.op = "draw"
  /\ Len(emitted) = 1
  /\ emitted[1].to # {}
  /\ DOMAIN games = Rooms
  /\ \A r \in Rooms : games[r].gameState = "playing"
  /\ games[intent.room].drawingData # <<>>
  /\ \E q \in Rooms \ {intent.room} : games[q].drawingData = <<>>

\* ------------------------------------------------------ clients and server
\* Three clients and the server. A client sends what its screen lets its
\* user do; the server handles the event at once; DeliverToClients then
\* applies what the sender's own function did to its state and gives every
\* emitted event to the clients it was addressed to.
roomIdOf(c) == clients[c].gameState.roomId

\* the client behind socket c draws fewer strokes than the server's log
\* may hold here, plus one
canDrawMore(c) == Len(rendered(clients[c])) < MaxLog + 2

\* joinRoom(), from the join form
ClientJoinRoom(c, r) ==
  /\ joinFormShown(clients[c])
  /\ JoinRoom(c, r, playerNameOf[c])

\* startGame(), from the Start Game button of the waiting screen
ClientStartGame(c, i) ==
  /\ waitingShown(clients[c])
  /\ Len(clients[c].gameState.players) >= 2
  /\ StartGame(c, roomIdOf(c), i)

\* handleTouchStart() on the canvas of the playing screen, by one finger:
\* a touch starts after the touch before it has ended
ClientTouchStart(c, d) ==
  /\ playingShown(clients[c])
  /\ ~ clients[c].isDrawing
  /\ isCurrentDrawer(clients[c], c)
  /\ strokeType[d] = "start"
  /\ canDrawMore(c)
  /\ DrawTo(c, roomIdOf(c), d, MaxLog + 1)

\* handleTouchMove() on the canvas of the playing screen
ClientTouchMove(c, d) ==
  /\ playingShown(clients[c])
  /\ clients[c].isDrawing
  /\ isCurrentDrawer(clients[c], c)
  /\ strokeType[d] = "draw"
  /\ canDrawMore(c)
  /\ DrawTo(c, roomIdOf(c), d, MaxLog + 1)

\* handleTouchEnd() on the canvas of the playing screen
ClientTouchEnd(c) ==
  /\ intent.op = "idle"
  /\ conn[c] = "open"
  /\ playingShown(clients[c])
  /\ clients[c].isDrawing
  /\ clients' = [clients EXCEPT ![c] = handleTouchEnd(@)]
  /\ UNCHANGED <<games, roomOrder, conn, sockRooms, emitted, intent>>

\* clearCanvas(), from the Clear Canvas button the drawer is shown
ClientClearCanvas(c) ==
  /\ playingShown(clients[c])
  /\ isCurrentDrawer(clients[c], c)
  /\ ClearCanvas(c, roomIdOf(c))

\* handleGuess(), from the guess input shown to everyone but the drawer
ClientGuess(c, g, i) ==
  /\ playingShown(clients[c])
  /\ ~ isCurrentDrawer(clients[c], c)
  /\ g # <<>>
  /\ GuessTo(c, roomIdOf(c), g, playerNameOf[c], i, MaxScore + 10)

\* the client goes away and its socket closes
ClientClose(c) == Disconnect(c)

\* what the function that sent the inbound event did to its own client
sent(cl, in) ==
  CASE in.op = "draw" /\ strokeType[in.data] = "start" ->
         handleTouchStart(cl, in.conn, in.data)
    [] in.op = "draw" /\ strokeType[in.data] = "draw" ->
         handleTouchMove(cl, in.conn, in.data)
    [] in.op = "disconnect" -> onDisconnect(cl)
    [] OTHER -> cl

\* The handler has returned and its events reach the clients.
DeliverToClients ==
  /\ intent.op # "idle"
  /\ clients' = deliverAll([clients EXCEPT ![intent.conn] = sent(@, intent)],
                           emitted)
  /\ emitted' = <<>>
  /\ intent' = Idle
  /\ UNCHANGED <<games, roomOrder, conn, sockRooms>>

NextClient ==
  \/ \E c \in Conns, r \in OneRoom : ClientJoinRoom(c, r)
  \/ \E c \in Conns, i \in RandomIndices : ClientStartGame(c, i)
  \/ \E c \in Conns, d \in Strokes : ClientTouchStart(c, d)
  \/ \E c \in Conns, d \in Strokes : ClientTouchMove(c, d)
  \/ \E c \in Conns : ClientTouchEnd(c)
  \/ \E c \in Conns : ClientClearCanvas(c)
  \/ \E c \in Conns, g \in Guesses, i \in RandomIndices : ClientGuess(c, g, i)
  \/ \E c \in Conns : ClientClose(c)
  \/ DeliverToClients

SpecClient == Init /\ [][NextClient]_vars

\* every event emitted so far has been delivered
AllDelivered == intent.op = "idle" /\ emitted = <<>>
\* the connections that are players of room r
Members(r) == Ids(games[r].players)

\* C27: once every emitted event has been delivered, the gameState.gameState
\* each player's client holds is the gameState of the player's room on the
\* server; so a client that joined a waiting room holds playing once
\* gameStarted has been delivered.
C27_ClientPhaseIsServerPhase ==
  AllDelivered =>
    \A r \in DOMAIN games : \A c \in Members(r) :
      /\ clients[c].gameState.set
      /\ clients[c].gameState.gameState = games[r].gameState

\* C28: once every emitted event has been delivered, the players list each
\* player's client holds is the players list of the player's room on the
\* server, whatever joins and disconnects of other players came before.
C28_ClientPlayersAreServerPlayers ==
  AllDelivered =>
    \A r \in DOMAIN games : \A c \in Members(r) :
      /\ clients[c].gameState.set
      /\ clients[c].gameState.players = games[r].players

\* C29: once every emitted event has been delivered, the strokes each
\* player's client draws are the drawingData of the player's room on the
\* server, in order; also for the client that sent clearCanvas and for a
\* client that joined after strokes of the round were drawn.
C29_ClientStrokesAreServerLog ==
  AllDelivered =>
    \A r \in DOMAIN games : \A c \in Members(r) :
      rendered(clients[c]) = games[r].drawingData

\* ------------------------------------------------ turns after a departure
\* C31: when the current drawer is no longer on the players list of a playing
\* room, a matching guess with round < maxRounds hands the turn to the first
\* player of the list as it is then (findIndex gives -1), and the new
\* currentDrawer is a player of the room.
C31_DepartedDrawerYieldsToFirst ==
  [][\A r \in DOMAIN games :
       ( /\ MatchingGuessWhilePlaying(r)
         /\ games[r].round < maxRounds
         /\ games[r].currentDrawer \notin Ids(games[r].players) ) =>
         /\ findIndex(games[r].players, games[r].currentDrawer) = -1
         /\ games'[r].currentDrawer = games[r].players[1].id
         /\ games'[r].players = games[r].players
         /\ games'[r].currentDrawer \in Ids(games'[r].players)]_vars

\* C31 witness: the drawer of round 1 has gone, two different players
\* remain, and the first matching guess of the game, sent by the second of
\* them, has just given the turn of round 2 to the first.
C31_Witness ==
  /\ intent.op = "guess"
  /\ intent.room \in DOMAIN games
  /\ LET g == games[intent.room] IN
       /\ g.gameState = "playing"
       /\ g.round = 2
       /\ Len(g.players) = 2
       /\ g.players[1].id # g.players[2].id
       /\ \E c \in Conns : conn[c] = "closed" /\ c \notin Ids(g.players)
       /\ g.currentDrawer = g.players[1].id
       /\ intent.conn = g.players[2].id
       /\ "nextRound" \in EventNames(emitted)

\* ------------------------------------------------------- counting rounds
\* the names of the events on a list of emitted events, in order
EventSeq(evs) == [k \in 1..Len(evs) |-> evs[k].event]

\* C32: while a room plays, a matching guess adds exactly 1 to round,
\* whoever has joined or left: with round < maxRounds it emits nextRound for
\* the next round and the room plays on, with round = maxRounds it emits
\* gameFinished and the room is finished; so the third matching guess after a
\* start ends the game, after two nextRound and before one gameFinished. Any
\* other intent except startGame leaves round and gameState as they are and
\* emits neither event, in a playing room as in a finished one: nothing but
\* a matching guess advances a round.
C32_RoundAdvancesOnlyByGuess ==
  [][\A r \in (DOMAIN games) \cap (DOMAIN games') :
       LET g == games[r]
           h == games'[r]
       IN g.gameState \in {"playing", "finished"} =>
            IF MatchingGuessWhilePlaying(r)
              THEN /\ h.round = g.round + 1
                   /\ g.round < maxRounds =>
                        /\ h.gameState = "playing"
                        /\ EventSeq(emitted') = <<"correctGuess", "nextRound">>
                        /\ emitted'[2].data.round = g.round + 1
                   /\ g.round = maxRounds =>
                        /\ h.gameState = "finished"
                        /\ EventSeq(emitted') = <<"correctGuess", "gameFinished">>
              ELSE Handled("startGame", r)
                     \/ /\ h.round = g.round
                        /\ h.gameState = g.gameState
                        /\ "nextRound" \notin EventNames(emitted')
                        /\ "gameFinished" \notin EventNames(emitted')]_vars

\* C32 witness: the third matching guess has just finished a game whose
\* drawer had left while it was played.
C32_Witness ==
  /\ intent.op = "guess"
  /\ intent.room \in DOMAIN games
  /\ LET g == games[intent.room] IN
       /\ g.gameState = "finished"
       /\ g.round = maxRounds + 1
       /\ g.currentDrawer \notin Ids(g.players)
       /\ EventSeq(emitted) = <<"correctGuess", "gameFinished">>

\* ------------------------------------------------------------ diagnostics
\* C33: every room in the registry has at least one player between any two
\* inbound events, the activeGames a health request reports is the number of
\* room ids that have one or more players, and the request changes nothing
\* of the server's state.
C33_HealthCountsInhabitedRooms ==
  [][/\ \A r \in DOMAIN games' : Len(games'[r].players) >= 1
     /\ intent'.op = "health" =>
          /\ Len(emitted') = 1
          /\ emitted'[1].data =
               [status      |-> "ok",
                activeGames |->
                  Cardinality({r \in Rooms :
                                 /\ r \in DOMAIN games
                                 /\ Ids(games[r].players) # {}})]
          /\ games' = games
          /\ roomOrder' = roomOrder
          /\ conn' = conn
          /\ sockRooms' = sockRooms]_vars

\* C33 witness: a health request is answered with two active games after a
\* player of both has left and another remains in each.
C33_Witness ==
  /\ intent.op = "health"
  /\ emitted = << Res([status |-> "ok", activeGames |-> 2]) >>
  /\ \E c \in Conns : conn[c] = "closed"
  /\ \A r \in Rooms : r \in DOMAIN games /\ Len(games[r].players) = 1

\* ----------------------------------------------------------------- scores
\* C34: the score of a player who stays in a room changes only in that
\* player's own matching guess while the room plays, and then by +10; no
\* other intent changes it (a guess of another player, a join by anyone, a
\* start, a stroke, a clear, a disconnect of another player); and every
\* score is a non-negative multiple of 10.
C34_ScoreMovesOnlyByOwnGuess ==
  [][\A r \in (DOMAIN games) \cap (DOMAIN games') :
       /\ \A c \in Ids(games[r].players) \cap Ids(games'[r].players) :
            LET old == games[r].scores[c]
                new == games'[r].scores[c]
            IN IF MatchingGuessWhilePlaying(r) /\ intent'.conn = c
                 THEN new = Num(old.val + 10)
                 ELSE new = old
       /\ \A c \in DOMAIN games'[r].scores :
            LET new == games'[r].scores[c] IN
              /\ ~ new.nan
              /\ new.val >= 0
              /\ new.val % 10 = 0]_vars

\* C35: the guess handler does not look at who sends: a matching guess sent
\* by the current drawer counts as a correct guess, adds 10 to the drawer's
\* own score and to no other, and advances the round as a guess of any other
\* player does: correctGuess and then nextRound or gameFinished go to the
\* whole room, round grows by 1, and below maxRounds the turn rotates and
\* the canvas is emptied.
C35_DrawerMayGuess ==
  [][\A r \in DOMAIN games :
       ( /\ MatchingGuessWhilePlaying(r)
         /\ intent'.conn = games[r].currentDrawer
         /\ intent'.conn \in Ids(games[r].players) ) =>
         LET c == intent'.conn
             g == games[r]
             h == games'[r]
         IN /\ h.scores[c] = Num(g.scores[c].val + 10)
            /\ \A k \in (DOMAIN g.scores) \ {c} : h.scores[k] = g.scores[k]
            /\ h.round = g.round + 1
            /\ emitted'[1].event = "correctGuess"
            /\ emitted'[1].data.playerId = c
            /\ emitted'[1].to = Ids(g.players)
            /\ emitted'[2].to = Ids(g.players)
            /\ IF g.round < maxRounds
                 THEN /\ EventSeq(emitted') = <<"correctGuess", "nextRound">>
                      /\ h.gameState = "playing"
                      /\ h.currentDrawer =
                           g.players[nextDrawerIndex(g.players, c) + 1].id
                      /\ h.drawingData = <<>>
                 ELSE /\ EventSeq(emitted') = <<"correctGuess", "gameFinished">>
                      /\ h.gameState = "finished"]_vars

\* C35 witness: in a room of two connected players the first, who drew in
\* round 1, has guessed the word: the guess brought 10 points and round 2,
\* in which the other player draws.
C35_Witness ==
  /\ intent.op = "guess"
  /\ intent.room \in DOMAIN games
  /\ \A c \in TwoConns : conn[c] = "open"
  /\ LET g == games[intent.room] IN
       /\ Len(g.players) = 2
       /\ g.players[1].id # g.players[2].id
       /\ intent.conn = g.players[1].id
       /\ g.round = 2
       /\ g.currentDrawer = g.players[2].id
       /\ g.scores[intent.conn] = Num(10)
       /\ EventSeq(emitted) = <<"correctGuess", "nextRound">>

\* -------------------------------------------------------------- audiences
\* the ids of the players of room r, none when the registry has no room r
PlayersOf(r) == IF r \in DOMAIN games THEN Ids(games[r].players) ELSE {}
\* the events a handler emits with socket.to(roomId)
ToOthers == {"playerJoined", "drawing", "canvasCleared", "wrongGuess",
             "playerLeft"}
\* the events a handler emits with io.to(roomId)
ToAll == {"gameStarted", "correctGuess", "nextRound", "gameFinished"}

DrawingEvents(evs) == SelectSeq(evs, LAMBDA e : e.event = "drawing")

\* C37: drawingData is the sequence of the strokes accepted since the last
\* clear or start of a round, in the order they arrived, and the drawing
\* events carry the same strokes in the same order: an accepted stroke goes
\* to the end of the log and out in one drawing event, a clear, a start and
\* a new round empty the log, and no other step changes the log or emits a
\* drawing; no stroke is dropped, doubled or moved.
C37_LogIsTheAcceptedStrokes ==
  [][\A r \in (DOMAIN games) \cap (DOMAIN games') :
       LET log   == games[r].drawingData
           after == games'[r].drawingData
           drawn == DrawingEvents(emitted')
       IN CASE Handled("draw", r) /\ games[r].gameState = "playing" ->
                 /\ after = Append(log, intent'.data)
                 /\ Len(drawn) = 1
                 /\ drawn[1].data = intent'.data
                 /\ drawn[1].to = Ids(games[r].players) \ {intent'.conn}
            [] \/ Handled("clearCanvas", r)
               \/ "gameStarted" \in EventNames(emitted')
               \/ "nextRound" \in EventNames(emitted') ->
                 /\ after = <<>>
                 /\ drawn = <<>>
            [] OTHER ->
                 /\ after = log
                 /\ drawn = <<>>]_vars

\* C37 witness: the same stroke has been accepted twice in a row and stands
\* twice on the log, and the second one was relayed like the first.
C37_Witness ==
  /\ intent.op = "draw"
  /\ intent.room \in DOMAIN games
  /\ games[intent.room].gameState = "playing"
  /\ games[intent.room].drawingData = <<intent.data, intent.data>>
  /\ Len(DrawingEvents(emitted)) = 1
  /\ emitted[1].data = intent.data
  /\ emitted[1].to # {}

====
